---- MODULE Spec2Model ----
(***************************************************************************)
(* Huji Meet: the transcription ingestion pipeline (start_transcription    *)
(* edge function and the ElevenLabs webhook), the segment builder they     *)
(* both contain, and the versioned summary generator (generate_summary).   *)
(*                                                                         *)
(* Every "await supabase..." of a handler is one step of that handler, so  *)
(* the handlers of concurrent requests interleave between any two          *)
(* persistence calls.                                                      *)
(*                                                                         *)
(* Times of the provider (seconds, floating point) are counted in          *)
(* half-milliseconds, so that Math.round(x * 1000) is a real rounding.     *)
(* Texts are sequences of characters.                                      *)
(***************************************************************************)
EXTENDS Integers, Sequences, FiniteSets, Bags, TLC

VARIABLES
    meeting,      \* the row of public.meetings: status, duration_seconds
    jobs,         \* public.transcription_jobs, indexed by job id 1..Len(jobs)
    segments,     \* public.transcript_segments of the meeting: a bag of rows
    summaries,    \* public.summaries of the meeting, in insertion order
    sub,          \* start_transcription requests: position and locals
    hook,         \* webhook requests: position and locals
    gen,          \* generate_summary requests: position and locals
    lastResolved, \* history: id of the job whose terminal status was written last
    bIn,          \* a pure part run alone: its input (a provider result and the
                  \* diarize flag, or the options of a request and the settings)
    bOut          \* a pure part run alone: which path ran and what it produced

vars == <<meeting, jobs, segments, summaries, sub, hook, gen, lastResolved, bIn, bOut>>

----------------------------------------------------------------------------
(* Bounds *)

MaxWords == 3
MaxRequests == 3
MaxTime == 3                \* largest word time, in half-milliseconds

----------------------------------------------------------------------------
(* Values *)

NoNum == -1                 \* an absent (undefined / null) number
NoSpeaker == "none"         \* an absent word.speaker_id
NoText == <<"null">>        \* an absent text
MeetingId == "m1"           \* the one recording of the model
OtherMeetingId == "mX"      \* an id that is unknown or owned by someone else

SpeakerIds == {NoSpeaker, "speaker_0", "speaker_1"}
WordTexts == {NoText, <<"a">>, <<"a", " ", "b">>}
WordTimes == {<<NoNum, NoNum>>, <<1, 3>>}

Words == [speaker_id : SpeakerIds, start : {t[1] : t \in WordTimes},
          end : {t[2] : t \in WordTimes}, text : WordTexts]

TimedWords == {w \in Words : <<w.start, w.end>> \in WordTimes}

\* Math.round(x * 1000) of a time x given in half-milliseconds; x ?? 0 first
ToMs(x) == IF x = NoNum THEN 0 ELSE (x + 1) \div 2

\* Math.round(x) (seconds) of a time x given in half-milliseconds
ToSeconds(x) == (x + 1000) \div 2000

\* the speaker with a slip: an absent identifier is taken as it is
SpeakerOfRaw(word) == word.speaker_id

\* word.speaker_id ?? 'speaker_0'
SpeakerOf(word) == IF word.speaker_id = NoSpeaker THEN "speaker_0" ELSE word.speaker_id

\* word.text ?? ''
TextOf(word) == IF word.text = NoText THEN <<>> ELSE word.text

\* `Speaker ${id.replace('speaker_', '')}`
SpeakerLabel(id) ==
    CASE id = "speaker_0" -> "Speaker 0"
      [] id = "speaker_1" -> "Speaker 1"
      [] OTHER -> "Speaker"

RECURSIVE Join(_)
\* Array.prototype.join(' ')
Join(ws) ==
    IF ws = <<>> THEN <<>>
    ELSE IF Len(ws) = 1 THEN ws[1]
    ELSE ws[1] \o <<" ">> \o Join(Tail(ws))

\* segments.push({...}) of the current run
PushRun(st) ==
    Append(st.segments,
           [meeting_id |-> MeetingId,
            speaker_id |-> st.currentSpeaker,
            speaker_label |-> SpeakerLabel(st.currentSpeaker),
            start_ms |-> st.segmentStart,
            end_ms |-> st.segmentEnd,
            text |-> Join(st.segmentWords),
            segmentWords |-> st.segmentWords])

----------------------------------------------------------------------------
(* The segment builder of start_transcription *)

SubmitLoopInit(words) ==
    [segments |-> <<>>,
     currentSpeaker |-> SpeakerOf(words[1]),
     segmentStart |-> ToMs(words[1].start),
     segmentWords |-> <<>>,
     segmentEnd |-> ToMs(words[1].start)]

\* the loop body with a slip: a new run keeps the start of the run before it
SubmitLoopBodyStartNotReset(st, word) ==
    LET speaker == SpeakerOf(word)
        wordStart == ToMs(word.start)
        wordEnd == ToMs(word.end)
        closed == IF speaker # st.currentSpeaker
                  THEN [st EXCEPT !.segments = PushRun(st),
                                  !.currentSpeaker = speaker,
                                  !.segmentWords = <<>>]
                  ELSE st
    IN [closed EXCEPT !.segmentWords = Append(closed.segmentWords, TextOf(word)),
                      !.segmentEnd = wordEnd]

\* the loop body with a slip: a run is also closed at a pause between words
SubmitLoopBodySplitsOnPause(st, word) ==
    LET speaker == SpeakerOf(word)
        wordStart == ToMs(word.start)
        wordEnd == ToMs(word.end)
        closed == IF speaker # st.currentSpeaker \/ wordStart > st.segmentEnd
                  THEN [st EXCEPT !.segments = PushRun(st),
                                  !.currentSpeaker = speaker,
                                  !.segmentStart = wordStart,
                                  !.segmentWords = <<>>]
                  ELSE st
    IN [closed EXCEPT !.segmentWords = Append(closed.segmentWords, TextOf(word)),
                      !.segmentEnd = wordEnd]

\* the loop body with a slip: the end of a run stays that of its first word
SubmitLoopBodyKeepsEnd(st, word) ==
    LET speaker == SpeakerOf(word)
        wordStart == ToMs(word.start)
        wordEnd == ToMs(word.end)
    IN IF speaker # st.currentSpeaker \/ st.segmentWords = <<>>
       THEN [st EXCEPT !.segments = IF speaker # st.currentSpeaker THEN PushRun(st) ELSE @,
                       !.currentSpeaker = speaker,
                       !.segmentStart = wordStart,
                       !.segmentWords = <<TextOf(word)>>,
                       !.segmentEnd = wordEnd]
       ELSE [st EXCEPT !.segmentWords = Append(st.segmentWords, TextOf(word))]

\* the loop body with a slip: the word that opens a new run is not appended
SubmitLoopBodyDropsWord(st, word) ==
    LET speaker == SpeakerOf(word)
        wordStart == ToMs(word.start)
        wordEnd == ToMs(word.end)
    IN IF speaker # st.currentSpeaker
       THEN [st EXCEPT !.segments = PushRun(st),
                       !.currentSpeaker = speaker,
                       !.segmentStart = wordStart,
                       !.segmentWords = <<>>,
                       !.segmentEnd = wordEnd]
       ELSE [st EXCEPT !.segmentWords = Append(st.segmentWords, TextOf(word)),
                       !.segmentEnd = wordEnd]

SubmitLoopBody(st, word) ==
    LET speaker == SpeakerOf(word)
        wordStart == ToMs(word.start)
        wordEnd == ToMs(word.end)
        closed == IF speaker # st.currentSpeaker
                  THEN [st EXCEPT !.segments = PushRun(st),
                                  !.currentSpeaker = speaker,
                                  !.segmentStart = wordStart,
                                  !.segmentWords = <<>>]
                  ELSE st
    IN [closed EXCEPT !.segmentWords = Append(closed.segmentWords, TextOf(word)),
                      !.segmentEnd = wordEnd]

RECURSIVE SubmitLoop(_, _, _)
SubmitLoop(st, words, i) ==
    IF i > Len(words) THEN st
    ELSE SubmitLoop(SubmitLoopBody(st, words[i]), words, i + 1)

SubmitBuildSegments(words) ==
    LET st == SubmitLoop(SubmitLoopInit(words), words, 1)
    IN IF Len(st.segmentWords) > 0 THEN PushRun(st) ELSE st.segments

\* the builder with a slip: a result without words and without text still
\* gets a placeholder segment
SubmitSegmentsPlaceholder(result, diarize) ==
    IF Len(result.words) > 0 /\ diarize
    THEN SubmitBuildSegments(result.words)
    ELSE << [meeting_id |-> MeetingId,
             speaker_id |-> "speaker_0",
             speaker_label |-> "Speaker 0",
             start_ms |-> 0,
             end_ms |-> ToMs(result.duration),
             text |-> IF result.text = NoText THEN <<>> ELSE result.text,
             segmentWords |-> <<>>] >>

\* the rows start_transcription inserts for a provider result
SubmitSegments(result, diarize) ==
    IF Len(result.words) > 0 /\ diarize
    THEN SubmitBuildSegments(result.words)
    ELSE IF result.text # NoText /\ result.text # <<>>
    THEN << [meeting_id |-> MeetingId,
             speaker_id |-> "speaker_0",
             speaker_label |-> "Speaker 0",
             start_ms |-> 0,
             end_ms |-> ToMs(result.duration),
             text |-> result.text,
             segmentWords |-> <<>>] >>
    ELSE <<>>

----------------------------------------------------------------------------
(* The segment builder of the webhook *)

WebhookLoopInit(words) ==
    [segments |-> <<>>,
     currentSpeaker |-> SpeakerOf(words[1]),
     segmentStart |-> ToMs(words[1].start),
     segmentWords |-> <<>>,
     segmentEnd |-> ToMs(words[1].start)]

\* the loop body with a slip: the run is never closed at a speaker change
WebhookLoopBodyNoSplit(st, word) ==
    [st EXCEPT !.segmentWords = Append(st.segmentWords, TextOf(word)),
               !.segmentEnd = ToMs(word.end)]

WebhookLoopBody(st, word) ==
    LET speaker == SpeakerOf(word)
        wordEnd == ToMs(word.end)
        wordStart == ToMs(word.start)
        closed == IF speaker # st.currentSpeaker
                  THEN [st EXCEPT !.segments = PushRun(st),
                                  !.currentSpeaker = speaker,
                                  !.segmentStart = wordStart,
                                  !.segmentWords = <<>>]
                  ELSE st
    IN [closed EXCEPT !.segmentWords = Append(closed.segmentWords, TextOf(word)),
                      !.segmentEnd = wordEnd]

RECURSIVE WebhookLoop(_, _, _)
WebhookLoop(st, words, i) ==
    IF i > Len(words) THEN st
    ELSE WebhookLoop(WebhookLoopBody(st, words[i]), words, i + 1)

WebhookBuildSegments(words) ==
    LET st == WebhookLoop(WebhookLoopInit(words), words, 1)
    IN IF Len(st.segmentWords) > 0 THEN PushRun(st) ELSE st.segments

\* the rows the webhook inserts for a payload
WebhookSegments(payload) ==
    IF Len(payload.words) > 0 THEN WebhookBuildSegments(payload.words) ELSE <<>>

----------------------------------------------------------------------------
(* Rows, provider results and callback payloads *)

\* the columns of transcript_segments the handlers write
Row(seg) ==
    [meeting_id |-> seg.meeting_id, speaker_id |-> seg.speaker_id,
     speaker_label |-> seg.speaker_label, start_ms |-> seg.start_ms,
     end_ms |-> seg.end_ms, text |-> seg.text]

Rows(segs) == [i \in 1..Len(segs) |-> Row(segs[i])]

\* .insert(rows) on transcript_segments: every row is added, whatever is there
InsertRows(table, segs) ==
    LET rows == Rows(segs)
        new == {rows[i] : i \in 1..Len(rows)}
    IN table (+) [r \in new |-> Cardinality({i \in 1..Len(rows) : rows[i] = r})]

Word(spk, s, e, t) == [speaker_id |-> spk, start |-> s, end |-> e, text |-> t]

\* a diarized result of two speakers, 2.0 s long
TwoSpeakerResult ==
    [status |-> "ok", error |-> "",
     words |-> << Word("speaker_0", 0, 1000, <<"a">>),
                  Word("speaker_1", 1001, 1801, <<"b">>) >>,
     text |-> <<"a", " ", "b">>, duration |-> 4000]

\* a result without word-level data and without a duration
TextOnlyResult ==
    [status |-> "ok", error |-> "", words |-> <<>>, text |-> <<"a">>, duration |-> NoNum]

\* a callback body that reports a failure in its error field only
ErrorPayload ==
    [status |-> "none", error |-> "provider error", words |-> <<>>,
     text |-> NoText, duration |-> NoNum]

\* a callback body with status 'failed' and no error text
FailedPayload ==
    [status |-> "failed", error |-> "", words |-> <<>>, text |-> NoText, duration |-> NoNum]

\* null: the raw_response of a new job, and a callback body that is the JSON
\* text null
NullPayload ==
    [status |-> "null", error |-> "", words |-> <<>>, text |-> NoText, duration |-> NoNum]

Results == {TwoSpeakerResult, TextOnlyResult}
Payloads == Results \cup {ErrorPayload, FailedPayload, NullPayload}

\* the test with a slip: only the status field is looked at
ErrorIndicatorStatusOnly(payload) == payload.status = "failed"

\* payload.status === 'failed' || payload.error
ErrorIndicator(payload) == payload.status = "failed" \/ payload.error # ""

\* bodies of non-2xx answers of the provider (await elevenLabsResponse.text())
UpstreamBodies == {"quota exceeded", "invalid audio"}

\* the error column: a text as the sequence of its parts, <<>> for null
NoError == <<>>

\* result.duration ? Math.round(result.duration) : null
DurationSeconds(result) ==
    IF result.duration = NoNum \/ result.duration = 0 THEN NoNum
    ELSE ToSeconds(result.duration)

\* options?.diarize ?? settings?.elevenlabs_diarize_default ?? true
EffectiveDiarize(optDiarize, settingsDiarize) ==
    IF optDiarize # "unset" THEN optDiarize = "true"
    ELSE IF settingsDiarize # "unset" THEN settingsDiarize = "true"
    ELSE TRUE

Flags == {"unset", "true", "false"}

----------------------------------------------------------------------------
(* State after deployment and one upload (create_upload_url) *)

\* requests to start_transcription, to the webhook and to generate_summary,
\* numbered as they arrive
Requests == 1..MaxRequests
GenIds == Requests

IdleSub == [pc |-> "idle", jobId |-> 0, diarize |-> TRUE, result |-> NullPayload,
            errorText |-> "", response |-> 0]
IdleHook == [pc |-> "idle", jobId |-> 0, jobStatus |-> "none", payload |-> NullPayload, response |-> 0]
IdleGen == [pc |-> "idle", nextVersion |-> 0, content_md |-> "", response |-> 0]

NoBuilderInput == [words |-> <<>>, text |-> NoText, duration |-> NoNum, diarize |-> TRUE]
NoBuilderOutput == [path |-> "none", segments |-> <<>>]

Init ==
    /\ meeting = [status |-> "uploaded", duration_seconds |-> NoNum]
    /\ jobs = <<>>
    /\ segments = EmptyBag
    /\ summaries = <<>>
    /\ sub = [s \in Requests |-> IdleSub]
    /\ hook = [h \in Requests |-> IdleHook]
    /\ gen = [g \in GenIds |-> IdleGen]
    /\ lastResolved = 0
    /\ bIn = NoBuilderInput
    /\ bOut = NoBuilderOutput

Terminal == {"completed", "failed"}

\* .update({status, ...}).eq('id', jobId) on transcription_jobs
UpdateJob(jobId, status, error, raw) ==
    /\ jobs' = [jobs EXCEPT ![jobId] = [@ EXCEPT !.status = status, !.error = error,
                                                 !.raw_response = raw]]
    /\ lastResolved' = IF status \in Terminal THEN jobId ELSE lastResolved

SubDone(s, code) == [IdleSub EXCEPT !.pc = "done", !.response = code]
HookDone(h, code) == [IdleHook EXCEPT !.pc = "done", !.response = code]

----------------------------------------------------------------------------
(* start_transcription: one action per await that reads or writes *)

\* request r has not arrived yet and is the next one to arrive
Arrives(r) ==
    /\ sub[r].pc = "idle" /\ hook[r].pc = "idle" /\ gen[r].pc = "idle"
    /\ IF r = 1 THEN TRUE
       ELSE ~(sub[r - 1].pc = "idle" /\ hook[r - 1].pc = "idle" /\ gen[r - 1].pc = "idle")


\* the step with a slip: the meeting is set to transcribing before the lookup
\* that tells whether the caller owns it
SubmitBeginWritesFirst(s) ==
    /\ Arrives(s)
    /\ \E auth \in {"ok", "missing", "invalid"}, meetingId \in {MeetingId, OtherMeetingId},
          keyConfigured \in BOOLEAN, optDiarize \in Flags, settingsDiarize \in Flags :
         /\ sub' = [sub EXCEPT ![s] =
                      IF auth # "ok" THEN SubDone(s, 401)
                      ELSE IF meetingId # MeetingId THEN SubDone(s, 404)
                      ELSE IF ~keyConfigured THEN SubDone(s, 500)
                      ELSE [IdleSub EXCEPT !.pc = "setTranscribing",
                                           !.diarize = EffectiveDiarize(optDiarize, settingsDiarize)]]
         /\ meeting' = IF auth = "ok" THEN [meeting EXCEPT !.status = "transcribing"] ELSE meeting
    /\ UNCHANGED <<jobs, segments, summaries, hook, gen, lastResolved, bIn, bOut>>

\* lines 18-66: caller identity, meeting lookup, settings, API key
SubmitBegin(s) ==
    /\ Arrives(s)
    /\ \E auth \in {"ok", "missing", "invalid"}, meetingId \in {MeetingId, OtherMeetingId},
          keyConfigured \in BOOLEAN, optDiarize \in Flags, settingsDiarize \in Flags :
         sub' = [sub EXCEPT ![s] =
                   IF auth # "ok" THEN SubDone(s, 401)
                   ELSE IF meetingId # MeetingId THEN SubDone(s, 404)
                   ELSE IF ~keyConfigured THEN SubDone(s, 500)
                   ELSE [IdleSub EXCEPT !.pc = "setTranscribing",
                                        !.diarize = EffectiveDiarize(optDiarize, settingsDiarize)]]
    /\ UNCHANGED <<meeting, jobs, segments, summaries, hook, gen, lastResolved, bIn, bOut>>

\* lines 68-72
SubmitSetTranscribing(s) ==
    /\ sub[s].pc = "setTranscribing"
    /\ meeting' = [meeting EXCEPT !.status = "transcribing"]
    /\ sub' = [sub EXCEPT ![s].pc = "insertJob"]
    /\ UNCHANGED <<jobs, segments, summaries, hook, gen, lastResolved, bIn, bOut>>


\* the step with a slip: a retry puts the latest job of the meeting back to
\* running instead of inserting a new one
SubmitInsertJobReusesRow(s) ==
    /\ sub[s].pc = "insertJob"
    /\ jobs' = IF jobs = <<>>
               THEN Append(jobs, [meeting_id |-> MeetingId, status |-> "running", error |-> NoError,
                                  raw_response |-> NullPayload])
               ELSE [jobs EXCEPT ![Len(jobs)].status = "running"]
    /\ sub' = [sub EXCEPT ![s].pc = "signedUrl",
                          ![s].jobId = IF jobs = <<>> THEN 1 ELSE Len(jobs)]
    /\ UNCHANGED <<meeting, segments, summaries, hook, gen, lastResolved, bIn, bOut>>

\* lines 74-81
SubmitInsertJob(s) ==
    /\ sub[s].pc = "insertJob"
    /\ jobs' = Append(jobs, [meeting_id |-> MeetingId, status |-> "running", error |-> NoError,
                             raw_response |-> NullPayload])
    /\ sub' = [sub EXCEPT ![s].pc = "signedUrl", ![s].jobId = Len(jobs) + 1]
    /\ UNCHANGED <<meeting, segments, summaries, hook, gen, lastResolved, bIn, bOut>>

\* lines 83-88
SubmitSignedUrl(s) ==
    /\ sub[s].pc = "signedUrl"
    /\ \E signed \in BOOLEAN :
         sub' = [sub EXCEPT ![s].pc = IF signed THEN "fetch" ELSE "urlFailJob"]
    /\ UNCHANGED <<meeting, jobs, segments, summaries, hook, gen, lastResolved, bIn, bOut>>

\* line 89
SubmitUrlFailJob(s) ==
    /\ sub[s].pc = "urlFailJob"
    /\ UpdateJob(sub[s].jobId, "failed", <<"Could not create signed URL">>,
                 jobs[sub[s].jobId].raw_response)
    /\ sub' = [sub EXCEPT ![s].pc = "urlFailMeeting"]
    /\ UNCHANGED <<meeting, segments, summaries, hook, gen, bIn, bOut>>

\* the step with a slip: no throw after the writes, the handler goes on to the provider
SubmitUrlFailMeetingNoThrow(s) ==
    /\ sub[s].pc = "urlFailMeeting"
    /\ meeting' = [meeting EXCEPT !.status = "failed"]
    /\ sub' = [sub EXCEPT ![s].pc = "fetch"]
    /\ UNCHANGED <<jobs, segments, summaries, hook, gen, lastResolved, bIn, bOut>>

\* lines 90-91, then the catch of lines 223-228
SubmitUrlFailMeeting(s) ==
    /\ sub[s].pc = "urlFailMeeting"
    /\ meeting' = [meeting EXCEPT !.status = "failed"]
    /\ sub' = [sub EXCEPT ![s] = SubDone(s, 500)]
    /\ UNCHANGED <<jobs, segments, summaries, hook, gen, lastResolved, bIn, bOut>>

\* lines 110-136: the provider answers non-2xx, answers with a result, or the
\* fetch (or the parse of its body) throws into the catch of lines 223-228
SubmitFetch(s) ==
    /\ sub[s].pc = "fetch"
    /\ \/ \E body \in UpstreamBodies :
            sub' = [sub EXCEPT ![s].pc = "rejectJob", ![s].errorText = body]
       \/ \E r \in Results : sub' = [sub EXCEPT ![s].pc = "completeJob", ![s].result = r]
       \/ sub' = [sub EXCEPT ![s] = SubDone(s, 500)]
    /\ UNCHANGED <<meeting, jobs, segments, summaries, hook, gen, lastResolved, bIn, bOut>>

\* the step with a slip: after a provider error the handler calls the provider again
SubmitRejectJobRetries(s) ==
    /\ sub[s].pc = "rejectJob"
    /\ sub' = [sub EXCEPT ![s].pc = "fetch"]
    /\ UNCHANGED <<meeting, jobs, segments, summaries, hook, gen, lastResolved, bIn, bOut>>

\* lines 124-127
SubmitRejectJob(s) ==
    /\ sub[s].pc = "rejectJob"
    /\ UpdateJob(sub[s].jobId, "failed", <<"500", ": ", sub[s].errorText>>,
                 jobs[sub[s].jobId].raw_response)
    /\ sub' = [sub EXCEPT ![s].pc = "rejectMeeting"]
    /\ UNCHANGED <<meeting, segments, summaries, hook, gen, bIn, bOut>>

\* the step with a slip: the error is returned without the meeting update
SubmitRejectMeetingSkipped(s) ==
    /\ sub[s].pc = "rejectMeeting"
    /\ sub' = [sub EXCEPT ![s] = SubDone(s, 500)]
    /\ UNCHANGED <<meeting, jobs, segments, summaries, hook, gen, lastResolved, bIn, bOut>>

\* lines 128-133
SubmitRejectMeeting(s) ==
    /\ sub[s].pc = "rejectMeeting"
    /\ meeting' = [meeting EXCEPT !.status = "failed"]
    /\ sub' = [sub EXCEPT ![s] = SubDone(s, 500)]
    /\ UNCHANGED <<jobs, segments, summaries, hook, gen, lastResolved, bIn, bOut>>

\* lines 139-144
SubmitCompleteJob(s) ==
    /\ sub[s].pc = "completeJob"
    /\ UpdateJob(sub[s].jobId, "completed", jobs[sub[s].jobId].error, sub[s].result)
    /\ sub' = [sub EXCEPT ![s].pc = "insertSegments"]
    /\ UNCHANGED <<meeting, segments, summaries, hook, gen, bIn, bOut>>

\* lines 146-209
SubmitInsertSegments(s) ==
    /\ sub[s].pc = "insertSegments"
    /\ segments' = InsertRows(segments, SubmitSegments(sub[s].result, sub[s].diarize))
    /\ sub' = [sub EXCEPT ![s].pc = "meetingReady"]
    /\ UNCHANGED <<meeting, jobs, summaries, hook, gen, lastResolved, bIn, bOut>>

\* the step with a slip: the duration is not stamped
SubmitMeetingReadyNoDuration(s) ==
    /\ sub[s].pc = "meetingReady"
    /\ meeting' = [meeting EXCEPT !.status = "ready"]
    /\ sub' = [sub EXCEPT ![s] = SubDone(s, 200)]
    /\ UNCHANGED <<jobs, segments, summaries, hook, gen, lastResolved, bIn, bOut>>

\* lines 211-222
SubmitMeetingReady(s) ==
    /\ sub[s].pc = "meetingReady"
    /\ meeting' = [status |-> "ready", duration_seconds |-> DurationSeconds(sub[s].result)]
    /\ sub' = [sub EXCEPT ![s] = SubDone(s, 200)]
    /\ UNCHANGED <<jobs, segments, summaries, hook, gen, lastResolved, bIn, bOut>>

----------------------------------------------------------------------------
(* The webhook: one action per await that reads or writes *)

\* job_id of the request: absent (0), the id of a job, or an id of no job
HookJobIds == 0..(Len(jobs) + 1)

\* WEBHOOK_SECRET of the deployment: not set, or the shared secret
ExpectedSecrets == {"unset", "s3cret"}

\* the secret parameter of a request: absent, the shared secret, another one
RequestSecrets == {"absent", "s3cret", "wrong"}

\* expectedSecret && secret !== expectedSecret
SecretRejected(expectedSecret, secret) == expectedSecret # "unset" /\ secret # expectedSecret

\* the checks with a slip: the job is looked up before the body is parsed
HookAdmissionLookupFirst(h, expectedSecret, secret, jobId, bodyParses, payload) ==
    IF SecretRejected(expectedSecret, secret) THEN HookDone(h, 403)
    ELSE IF jobId = 0 THEN HookDone(h, 400)
    ELSE IF jobId > Len(jobs) THEN HookDone(h, 404)
    ELSE IF ~bodyParses THEN HookDone(h, 500)
    ELSE IF payload = NullPayload THEN HookDone(h, 500)
    ELSE [IdleHook EXCEPT
            !.pc = IF ErrorIndicator(payload) THEN "failJob" ELSE "completeJob",
            !.jobId = jobId,
            !.jobStatus = jobs[jobId].status,
            !.payload = payload]

\* lines 11-40: what the handler does with one request before its first write:
\* the response it returns, or the branch it takes with the job it found
\* (payload.status of a null body throws into the catch of lines 119-122)
HookAdmission(h, expectedSecret, secret, jobId, bodyParses, payload) ==
    IF SecretRejected(expectedSecret, secret) THEN HookDone(h, 403)
    ELSE IF jobId = 0 THEN HookDone(h, 400)
    ELSE IF ~bodyParses THEN HookDone(h, 500)
    ELSE IF jobId > Len(jobs) THEN HookDone(h, 404)
    ELSE IF payload = NullPayload THEN HookDone(h, 500)
    ELSE [IdleHook EXCEPT
            !.pc = IF ErrorIndicator(payload) THEN "failJob" ELSE "completeJob",
            !.jobId = jobId,
            !.jobStatus = jobs[jobId].status,
            !.payload = payload]

\* lines 11-49 up to the first write, for one request: secret, job_id, body,
\* job lookup, branch
HookBeginWith(h, expectedSecret, secret, jobId, bodyParses, payload) ==
    /\ Arrives(h)
    /\ hook' = [hook EXCEPT ![h] = HookAdmission(h, expectedSecret, secret, jobId, bodyParses, payload)]
    /\ UNCHANGED <<meeting, jobs, segments, summaries, sub, gen, lastResolved, bIn, bOut>>

HookBegin(h) ==
    /\ Arrives(h)
    /\ \E expectedSecret \in ExpectedSecrets, secret \in RequestSecrets,
          jobId \in HookJobIds, bodyParses \in BOOLEAN, payload \in Payloads :
         HookBeginWith(h, expectedSecret, secret, jobId, bodyParses, payload)

\* lines 41-45
HookFailJob(h) ==
    /\ hook[h].pc = "failJob"
    /\ UpdateJob(hook[h].jobId, "failed",
                 <<IF hook[h].payload.error # "" THEN hook[h].payload.error ELSE "Unknown error">>,
                 hook[h].payload)
    /\ hook' = [hook EXCEPT ![h].pc = "failMeeting"]
    /\ UNCHANGED <<meeting, segments, summaries, sub, gen, bIn, bOut>>

\* lines 47-48
HookFailMeeting(h) ==
    /\ hook[h].pc = "failMeeting"
    /\ meeting' = [meeting EXCEPT !.status = "failed"]
    /\ hook' = [hook EXCEPT ![h] = HookDone(h, 200)]
    /\ UNCHANGED <<jobs, segments, summaries, sub, gen, lastResolved, bIn, bOut>>

\* lines 51-55
HookCompleteJob(h) ==
    /\ hook[h].pc = "completeJob"
    /\ UpdateJob(hook[h].jobId, "completed", jobs[hook[h].jobId].error, hook[h].payload)
    /\ hook' = [hook EXCEPT ![h].pc = "insertSegments"]
    /\ UNCHANGED <<meeting, segments, summaries, sub, gen, bIn, bOut>>

\* lines 57-110
HookInsertSegments(h) ==
    /\ hook[h].pc = "insertSegments"
    /\ segments' = InsertRows(segments, WebhookSegments(hook[h].payload))
    /\ hook' = [hook EXCEPT ![h].pc = "meetingReady"]
    /\ UNCHANGED <<meeting, jobs, summaries, sub, gen, lastResolved, bIn, bOut>>

\* lines 112-118
HookMeetingReady(h) ==
    /\ hook[h].pc = "meetingReady"
    /\ meeting' = [status |-> "ready", duration_seconds |-> DurationSeconds(hook[h].payload)]
    /\ hook' = [hook EXCEPT ![h] = HookDone(h, 200)]
    /\ UNCHANGED <<jobs, segments, summaries, sub, gen, lastResolved, bIn, bOut>>

----------------------------------------------------------------------------
(* The pipeline: submissions and callbacks of one recording *)

SubmitStep(s) ==
    \/ SubmitBegin(s)
    \/ SubmitSetTranscribing(s)
    \/ SubmitInsertJob(s)
    \/ SubmitSignedUrl(s)
    \/ SubmitUrlFailJob(s)
    \/ SubmitUrlFailMeeting(s)
    \/ SubmitFetch(s)
    \/ SubmitRejectJob(s)
    \/ SubmitRejectMeeting(s)
    \/ SubmitCompleteJob(s)
    \/ SubmitInsertSegments(s)
    \/ SubmitMeetingReady(s)

HookStep(h) ==
    \/ HookBegin(h)
    \/ HookFailJob(h)
    \/ HookFailMeeting(h)
    \/ HookCompleteJob(h)
    \/ HookInsertSegments(h)
    \/ HookMeetingReady(h)

----------------------------------------------------------------------------
(* generate_summary *)

GenDone(g, code) == [IdleGen EXCEPT !.pc = "done", !.response = code]

GenArrives(g) == Arrives(g)

\* llmResult.choices?.[0]?.message?.content || ''
Contents == {"", "notes"}

\* the checks with a slip: the meeting is looked up without .eq('status', 'ready')
GenAdmissionAnyStatus(g, auth, meetingId) ==
    IF auth = "missing" THEN GenDone(g, 500)
    ELSE IF auth = "invalid" THEN GenDone(g, 401)
    ELSE IF meetingId # MeetingId THEN GenDone(g, 404)
    ELSE [IdleGen EXCEPT !.pc = "readSegments"]

\* lines 34-61: the response to one request, or the go-ahead to read on
GenAdmission(g, auth, meetingId) ==
    IF auth = "missing" THEN GenDone(g, 500)
    ELSE IF auth = "invalid" THEN GenDone(g, 401)
    ELSE IF meetingId # MeetingId \/ meeting.status # "ready" THEN GenDone(g, 404)
    ELSE [IdleGen EXCEPT !.pc = "readSegments"]

\* lines 34-61: caller identity, ready meeting of the caller
GenBegin(g) ==
    /\ GenArrives(g)
    /\ \E auth \in {"ok", "missing", "invalid"}, meetingId \in {MeetingId, OtherMeetingId} :
         gen' = [gen EXCEPT ![g] = GenAdmission(g, auth, meetingId)]
    /\ UNCHANGED <<meeting, jobs, segments, summaries, sub, hook, lastResolved, bIn, bOut>>


\* the step with a slip: a draft row is saved when the provider fails
GenReadSegmentsSavesDraft(g) ==
    /\ gen[g].pc = "readSegments"
    /\ \E templateFound \in BOOLEAN, keyConfigured \in BOOLEAN,
          provider \in {"ok", "rejected", "throws"}, content \in Contents :
         /\ gen' = [gen EXCEPT ![g] =
                      IF ~templateFound THEN GenDone(g, 400)
                      ELSE IF segments = EmptyBag THEN GenDone(g, 400)
                      ELSE IF ~keyConfigured THEN GenDone(g, 500)
                      ELSE IF provider # "ok" THEN GenDone(g, 500)
                      ELSE [IdleGen EXCEPT !.pc = "readVersion", !.content_md = content]]
         /\ summaries' = IF templateFound /\ segments # EmptyBag /\ keyConfigured /\ provider # "ok"
                         THEN Append(summaries, [meeting_id |-> MeetingId, version |-> 0,
                                                 content_md |-> ""])
                         ELSE summaries
    /\ UNCHANGED <<meeting, jobs, segments, sub, hook, lastResolved, bIn, bOut>>

\* lines 63-167: settings, template, segments, API key, the call of the
\* text-generation provider
GenReadSegments(g) ==
    /\ gen[g].pc = "readSegments"
    /\ \E templateFound \in BOOLEAN, keyConfigured \in BOOLEAN,
          provider \in {"ok", "rejected", "throws"}, content \in Contents :
         gen' = [gen EXCEPT ![g] =
                   IF ~templateFound THEN GenDone(g, 400)
                   ELSE IF segments = EmptyBag THEN GenDone(g, 400)
                   ELSE IF ~keyConfigured THEN GenDone(g, 500)
                   ELSE IF provider # "ok" THEN GenDone(g, 500)
                   ELSE [IdleGen EXCEPT !.pc = "readVersion", !.content_md = content]]
    /\ UNCHANGED <<meeting, jobs, segments, summaries, sub, hook, lastResolved, bIn, bOut>>

\* the read with a slip: the rows are ordered by version ascending
MaxVersionAscending(rows) ==
    IF rows = <<>> THEN 0
    ELSE CHOOSE v \in {rows[i].version : i \in 1..Len(rows)} :
           \A i \in 1..Len(rows) : rows[i].version >= v

\* existingSummaries?.[0]?.version ?? 0 of the rows ordered by version descending
MaxVersion(rows) ==
    IF rows = <<>> THEN 0
    ELSE CHOOSE v \in {rows[i].version : i \in 1..Len(rows)} :
           \A i \in 1..Len(rows) : rows[i].version <= v

\* lines 169-177
GenReadVersion(g) ==
    /\ gen[g].pc = "readVersion"
    /\ gen' = [gen EXCEPT ![g].pc = "insert", ![g].nextVersion = MaxVersion(summaries) + 1]
    /\ UNCHANGED <<meeting, jobs, segments, summaries, sub, hook, lastResolved, bIn, bOut>>


\* the step with a slip: an upsert on (meeting_id, version)
GenInsertUpsert(g) ==
    /\ gen[g].pc = "insert"
    /\ LET row == [meeting_id |-> MeetingId, version |-> gen[g].nextVersion,
                   content_md |-> gen[g].content_md]
       IN summaries' = IF \E i \in 1..Len(summaries) : summaries[i].version = row.version
                       THEN [i \in 1..Len(summaries) |->
                               IF summaries[i].version = row.version THEN row ELSE summaries[i]]
                       ELSE Append(summaries, row)
    /\ gen' = [gen EXCEPT ![g] = [GenDone(g, 200) EXCEPT !.nextVersion = gen[g].nextVersion]]
    /\ UNCHANGED <<meeting, jobs, segments, sub, hook, lastResolved, bIn, bOut>>

\* lines 179-194
GenInsert(g) ==
    /\ gen[g].pc = "insert"
    /\ summaries' = Append(summaries, [meeting_id |-> MeetingId,
                                       version |-> gen[g].nextVersion,
                                       content_md |-> gen[g].content_md])
    /\ gen' = [gen EXCEPT ![g] = [GenDone(g, 200) EXCEPT !.nextVersion = gen[g].nextVersion]]
    /\ UNCHANGED <<meeting, jobs, segments, sub, hook, lastResolved, bIn, bOut>>

GenStep(g) ==
    \/ GenBegin(g)
    \/ GenReadSegments(g)
    \/ GenReadVersion(g)
    \/ GenInsert(g)

\* the whole system: requests to the three functions on one recording
Next ==
    \/ \E s \in Requests : SubmitStep(s)
    \/ \E h \in Requests : HookStep(h)
    \/ \E g \in GenIds : GenStep(g)

Spec == Init /\ [][Next]_vars

\* a transcript row of the recording, as an earlier completed job left it
SomeSegments == InsertRows(EmptyBag, SubmitSegments(TextOnlyResult, TRUE))

InitSummary ==
    /\ meeting \in [status : {"uploaded", "transcribing", "ready", "failed"},
                    duration_seconds : {NoNum}]
    /\ jobs = <<>>
    /\ segments \in {EmptyBag, SomeSegments}
    /\ summaries = <<>>
    /\ sub = [s \in Requests |-> IdleSub]
    /\ hook = [h \in Requests |-> IdleHook]
    /\ gen = [g \in GenIds |-> IdleGen]
    /\ lastResolved = 0
    /\ bIn = NoBuilderInput
    /\ bOut = NoBuilderOutput

NextSummary == \E g \in GenIds : GenStep(g)

SpecSummary == InitSummary /\ [][NextSummary]_vars

\* generate calls made one after another: the page awaits each call and
\* disables its button meanwhile
GenBeginSeq(g) ==
    /\ \A k \in GenIds : gen[k].pc \in {"idle", "done"}
    /\ GenBegin(g)

NextSummarySeq ==
    \E g \in GenIds : GenBeginSeq(g) \/ GenReadSegments(g) \/ GenReadVersion(g) \/ GenInsert(g)

SpecSummarySeq == InitSummary /\ [][NextSummarySeq]_vars

----------------------------------------------------------------------------
(* The segment builders alone, on every provider result of a bounded size *)

RECURSIVE SeqsUpTo(_, _)
SeqsUpTo(S, n) ==
    IF n = 0 THEN {<<>>}
    ELSE LET shorter == SeqsUpTo(S, n - 1)
         IN shorter \cup {Append(q, x) : q \in {t \in shorter : Len(t) = n - 1}, x \in S}

InitBuilder ==
    /\ meeting = [status |-> "transcribing", duration_seconds |-> NoNum]
    /\ jobs = <<>>
    /\ segments = EmptyBag
    /\ summaries = <<>>
    /\ sub = [s \in Requests |-> IdleSub]
    /\ hook = [h \in Requests |-> IdleHook]
    /\ gen = [g \in GenIds |-> IdleGen]
    /\ lastResolved = 0
    /\ bIn \in [words : SeqsUpTo(TimedWords, MaxWords), text : {NoText, <<"a">>},
                duration : {NoNum, 3001}, diarize : BOOLEAN]
    /\ bOut = NoBuilderOutput

\* lines 146-209 of start_transcription on the result
BuildAsSubmit ==
    /\ bOut.path = "none"
    /\ bOut' = [path |-> "submit", segments |-> SubmitSegments(bIn, bIn.diarize)]
    /\ UNCHANGED <<meeting, jobs, segments, summaries, sub, hook, gen, lastResolved, bIn>>

\* lines 57-110 of the webhook on the payload
BuildAsWebhook ==
    /\ bOut.path = "none"
    /\ bOut' = [path |-> "webhook", segments |-> WebhookSegments(bIn)]
    /\ UNCHANGED <<meeting, jobs, segments, summaries, sub, hook, gen, lastResolved, bIn>>

NextBuilder == BuildAsSubmit \/ BuildAsWebhook

SpecBuilder == InitBuilder /\ [][NextBuilder]_vars

----------------------------------------------------------------------------
(* Properties of the segment builders (SpecBuilder) *)

\* the builder ran on word-level data: a non-empty word list, and diarization
\* in effect (the webhook never looks at the flag)
BuiltDiarized ==
    /\ bOut.path # "none"
    /\ Len(bIn.words) > 0
    /\ bOut.path = "submit" => bIn.diarize

RECURSIVE ConcatWords(_)
\* the words of the segments, in segment order
ConcatWords(segs) ==
    IF segs = <<>> THEN <<>> ELSE Head(segs).segmentWords \o ConcatWords(Tail(segs))

InputTexts == [i \in 1..Len(bIn.words) |-> TextOf(bIn.words[i])]

\* C2: for every non-empty word sequence built with diarization in effect, the
\* words of the emitted segments, concatenated in segment order, are exactly the
\* input words in their order: none omitted, none duplicated.
C2_SegmentPartition ==
    BuiltDiarized => ConcatWords(bOut.segments) = InputTexts

C2_Witness ==
    /\ BuiltDiarized
    /\ bOut.path = "submit"
    /\ Len(bIn.words) = 3
    /\ Len(bOut.segments) = 2

RECURSIVE WordsBefore(_, _)
\* the number of words in the first k segments
WordsBefore(segs, k) ==
    IF k = 0 THEN 0 ELSE WordsBefore(segs, k - 1) + Len(segs[k].segmentWords)

\* the positions of the input words that segment k holds
WordRange(segs, k) == (WordsBefore(segs, k - 1) + 1)..WordsBefore(segs, k)

\* the segment that holds input word i
SegmentOf(segs, i) == Cardinality({k \in 1..Len(segs) : WordsBefore(segs, k - 1) < i})

\* C3: within every emitted segment all words have the same defaulted speaker,
\* which is the segment's speaker_id; and two consecutive input words with
\* different speakers lie in different segments.
C3_SpeakerRuns ==
    BuiltDiarized =>
      /\ \A k \in 1..Len(bOut.segments) :
           \A i \in WordRange(bOut.segments, k) \cap (1..Len(bIn.words)) :
             SpeakerOf(bIn.words[i]) = bOut.segments[k].speaker_id
      /\ \A i \in 1..(Len(bIn.words) - 1) :
           SpeakerOf(bIn.words[i]) # SpeakerOf(bIn.words[i + 1]) =>
             SegmentOf(bOut.segments, i) # SegmentOf(bOut.segments, i + 1)

C3_Witness ==
    /\ BuiltDiarized
    /\ bOut.path = "webhook"
    /\ Len(bIn.words) = 3
    /\ bIn.words[1].speaker_id = "speaker_1"
    /\ bIn.words[2].speaker_id = NoSpeaker
    /\ bIn.words[3].speaker_id = "speaker_0"
    /\ Len(bOut.segments) = 2

----------------------------------------------------------------------------
(* Properties of the pipeline (Spec) *)

JobIds == 1..Len(jobs)

\* C1: a callback for a job that the handler found already completed inserts
\* no segments, so a payload delivered twice leaves the segments of one delivery.
C1_CallbackIdempotent ==
    [][\A h \in Requests :
         (/\ hook[h].pc = "insertSegments"
          /\ hook'[h].pc # "insertSegments"
          /\ hook[h].jobStatus = "completed") => segments' = segments]_vars

LegalJobMoves == {<<"queued", "running">>, <<"running", "completed">>, <<"running", "failed">>}

\* C4: every change of a job's status is a move of queued -> running ->
\* {completed, failed}; a completed or failed job never changes status again.
C4_JobStatusLegal ==
    [][\A j \in JobIds :
         jobs'[j].status # jobs[j].status =>
           <<jobs[j].status, jobs'[j].status>> \in LegalJobMoves]_vars

LegalRecordingMoves ==
    {<<"uploaded", "transcribing">>, <<"transcribing", "ready">>,
     <<"transcribing", "failed">>, <<"failed", "transcribing">>}

\* a handler performs its write of status ready in this step
WritesReady ==
    \E r \in Requests :
      \/ sub[r].pc = "meetingReady" /\ sub'[r].pc # "meetingReady"
      \/ hook[r].pc = "meetingReady" /\ hook'[r].pc # "meetingReady"

\* C5: every change of the recording's status is uploaded->transcribing,
\* transcribing->ready, transcribing->failed or failed->transcribing, and ready
\* is written only from transcribing (never ready->ready).
C5_RecordingStatusLegal ==
    [][/\ meeting'.status # meeting.status =>
            <<meeting.status, meeting'.status>> \in LegalRecordingMoves
       /\ WritesReady => meeting.status = "transcribing"]_vars

\* the rows derived from the result of job j are in the table, whichever path
\* and diarization flag derived them
JobSegmentsPersisted(j) ==
    \/ \E d \in BOOLEAN :
         InsertRows(EmptyBag, SubmitSegments(jobs[j].raw_response, d)) \sqsubseteq segments
    \/ InsertRows(EmptyBag, WebhookSegments(jobs[j].raw_response)) \sqsubseteq segments

\* C6: in every state where a job is completed, the segments derived from its
\* result are already persisted.
C6_SegmentsBeforeCompleted ==
    \A j \in JobIds : jobs[j].status = "completed" => JobSegmentsPersisted(j)

\* C7: the write of a job's terminal status and the write of the recording's
\* terminal status are one step: the step that makes a job completed (failed)
\* leaves the recording ready (failed).
C7_TerminalWritesAtomic ==
    [][\A j \in JobIds :
         (jobs'[j].status # jobs[j].status /\ jobs'[j].status \in Terminal) =>
           meeting'.status = IF jobs'[j].status = "completed" THEN "ready" ELSE "failed"]_vars

NoHandlerRunning ==
    \A r \in Requests : sub[r].pc \in {"idle", "done"} /\ hook[r].pc \in {"idle", "done"}

\* C8: when several jobs exist, all are resolved and no handler is running, the
\* recording's status is the outcome of the job whose terminal status was
\* written last.
C8_LastResolvedDecides ==
    (/\ NoHandlerRunning
     /\ Len(jobs) >= 2
     /\ \A j \in JobIds : jobs[j].status \in Terminal) =>
       meeting.status = IF jobs[lastResolved].status = "completed" THEN "ready" ELSE "failed"

\* C9: a recording has at most one job in running status in every state.
C9_OneRunningJob ==
    Cardinality({j \in JobIds : jobs[j].status = "running"}) <= 1

----------------------------------------------------------------------------
(* Properties of the summary generator (SpecSummary) *)

\* C10: the persisted summaries carry pairwise distinct versions that are
\* exactly 1..n, for every interleaving of generate calls.
C10_VersionsOneToN ==
    /\ {summaries[i].version : i \in 1..Len(summaries)} = 1..Len(summaries)
    /\ \A i, k \in 1..Len(summaries) : i # k => summaries[i].version # summaries[k].version

\* the calls that returned success, and the versions they returned
Succeeded == {g \in GenIds : gen[g].pc = "done" /\ gen[g].response = 200}

\* C11: for generate calls made one after another, every successful call has
\* persisted exactly one row, the row of the k-th successful call has version k
\* (1 when there was none, else the maximum plus one), and the call returned it.
C11_SequentialVersions ==
    /\ Len(summaries) = Cardinality(Succeeded)
    /\ \A i \in 1..Len(summaries) : summaries[i].version = i
    /\ {gen[g].nextVersion : g \in Succeeded} = 1..Len(summaries)

C11_Witness ==
    /\ Len(summaries) = 2
    /\ \E g \in Succeeded : gen[g].nextVersion = 2
    /\ \E g \in GenIds : gen[g].pc = "done" /\ gen[g].response = 400

----------------------------------------------------------------------------
(* Error handling of start_transcription (Spec) *)

\* handler s leaves position pc in this step
Leaves(s, pc) == sub[s].pc = pc /\ sub'[s].pc # pc

\* no other request has arrived
Alone(s) ==
    \A r \in Requests \ {s} : sub[r].pc = "idle" /\ hook[r].pc = "idle" /\ gen[r].pc = "idle"

\* the text is one of the parts of the error column
Contains(error, text) == \E i \in 1..Len(error) : error[i] = text

\* C12: after a non-2xx answer of the provider the handler writes its job failed
\* with an error text that contains the upstream body, then writes the
\* recording failed and returns a 500 response; it inserts no segment. With no
\* other request around, job and recording are failed and the table is empty
\* when the response is returned.
C12_ProviderRejection ==
    [][\A s \in Requests :
         /\ Leaves(s, "rejectJob") =>
              /\ jobs'[sub[s].jobId].status = "failed"
              /\ Contains(jobs'[sub[s].jobId].error, sub[s].errorText)
              /\ segments' = segments
              /\ sub'[s].pc = "rejectMeeting"
         /\ Leaves(s, "rejectMeeting") =>
              /\ meeting'.status = "failed"
              /\ segments' = segments
              /\ sub'[s].pc = "done" /\ sub'[s].response = 500
              /\ Alone(s) =>
                   /\ jobs'[sub[s].jobId].status = "failed"
                   /\ Contains(jobs'[sub[s].jobId].error, sub[s].errorText)
                   /\ segments' = EmptyBag]_vars

C12_Witness ==
    /\ sub[1].pc = "done" /\ sub[1].response = 500
    /\ Len(jobs) = 1
    /\ jobs[1].status = "failed"
    /\ jobs[1].error = <<"500", ": ", "invalid audio">>
    /\ meeting.status = "failed"
    /\ segments = EmptyBag

\* C13: whenever a submission returns an error after its job was created, that
\* job is failed and the recording is failed at the moment of the return.
C13_FailureDurable ==
    [][\A s \in Requests :
         (/\ sub[s].pc \notin {"idle", "done"}
          /\ sub[s].jobId # 0
          /\ sub'[s].pc = "done"
          /\ sub'[s].response # 200) =>
            /\ jobs'[sub[s].jobId].status = "failed"
            /\ meeting'.status = "failed"]_vars

\* a handler that has started takes its next step
Continue ==
    \E r \in Requests :
        \/ sub[r].pc # "idle" /\ SubmitStep(r)
        \/ hook[r].pc # "idle" /\ HookStep(r)
        \/ gen[r].pc # "idle" /\ GenStep(r)

\* the runtime runs every started handler to its end; no request is owed
SpecFair == Spec /\ WF_vars(Continue)

\* C14: under fair scheduling every job created in running eventually is
\* completed or failed with its recording out of transcribing.
C14_EveryJobResolves ==
    \A j \in Requests :
        (Len(jobs) >= j /\ jobs[j].status = "running")
            ~> (Len(jobs) >= j /\ jobs[j].status \in Terminal /\ meeting.status # "transcribing")

\* C15: when no signed URL is obtained the handler writes its job failed, then
\* the recording failed, and returns a 500 response without calling the
\* provider (it never reaches the fetch).
C15_SignedUrlFailure ==
    [][\A s \in Requests :
         /\ Leaves(s, "urlFailJob") =>
              /\ jobs'[sub[s].jobId].status = "failed"
              /\ jobs'[sub[s].jobId].error = <<"Could not create signed URL">>
              /\ sub'[s].pc = "urlFailMeeting"
         /\ Leaves(s, "urlFailMeeting") =>
              /\ meeting'.status = "failed"
              /\ sub'[s].pc = "done" /\ sub'[s].response = 500]_vars

C15_Witness ==
    /\ sub[1].pc = "done" /\ sub[1].response = 500
    /\ Len(jobs) = 1
    /\ jobs[1].status = "failed"
    /\ jobs[1].error = <<"Could not create signed URL">>
    /\ meeting.status = "failed"

----------------------------------------------------------------------------
(* Rejected requests (Spec) *)

persisted == <<meeting, jobs, segments, summaries>>

\* C16: a submission answered 401 or 404 and a generate call answered 401, 404
\* or 400 change no recording, job, segment or summary: the step that rejects
\* the request writes nothing, and no earlier step of that request wrote.
C16_RejectionsWriteNothing ==
    [][/\ \A s \in Requests :
            (sub[s].pc # "done" /\ sub'[s].pc = "done" /\ sub'[s].response \in {401, 404}) =>
                sub[s].pc = "idle" /\ UNCHANGED persisted
       /\ \A g \in Requests :
            /\ (gen[g].pc # "done" /\ gen'[g].pc = "done" /\ gen'[g].response \in {400, 401, 404}) =>
                  gen[g].pc \in {"idle", "readSegments"} /\ UNCHANGED persisted
            /\ (gen[g].pc = "idle" /\ gen'[g].pc = "readSegments") => UNCHANGED persisted]_vars

C16_Witness ==
    /\ \E s \in Requests : sub[s].pc = "done" /\ sub[s].response = 404
    /\ \E g \in Requests : gen[g].pc = "done" /\ gen[g].response = 400
    /\ Len(jobs) = 1
    /\ meeting.status = "ready"
    /\ summaries = <<>>

----------------------------------------------------------------------------
(* The callback's checks and its failure path (Spec) *)

\* callback h arrives in this step
HookArrives(h) == hook[h].pc = "idle" /\ hook'[h].pc # "idle"

\* the request presented the shared secret of the deployment
PresentsSecret(expectedSecret, secret) == expectedSecret # "unset" /\ secret = expectedSecret

\* C17: a callback that does not present the shared secret is rejected with
\* 403 at its first step, whatever the deployment's configuration, so that
\* only requests that presented the secret reach the handler's writes.
C17_SecretRequired ==
    [][\A h \in Requests : HookArrives(h) =>
         \A expectedSecret \in ExpectedSecrets, secret \in RequestSecrets,
            jobId \in HookJobIds, bodyParses \in BOOLEAN, payload \in Payloads :
              (/\ HookBeginWith(h, expectedSecret, secret, jobId, bodyParses, payload)
               /\ ~PresentsSecret(expectedSecret, secret)) =>
                  hook'[h].pc = "done" /\ hook'[h].response = 403]_vars

\* C18 as stated: a callback that passed the secret check and has no job_id,
\* or a job_id that matches no job, is answered 404 and changes no job,
\* recording or segment.
C18_UnknownJobNotFound ==
    [][\A h \in Requests : HookArrives(h) =>
         \A expectedSecret \in ExpectedSecrets, secret \in RequestSecrets,
            jobId \in HookJobIds, bodyParses \in BOOLEAN, payload \in Payloads :
              (/\ HookBeginWith(h, expectedSecret, secret, jobId, bodyParses, payload)
               /\ ~SecretRejected(expectedSecret, secret)
               /\ (jobId = 0 \/ jobId > Len(jobs))) =>
                  /\ hook'[h].pc = "done" /\ hook'[h].response = 404
                  /\ UNCHANGED <<meeting, jobs, segments>>]_vars

\* C18 amended: an arriving callback that passed the secret check is answered 400 when
\* it has no job_id; with a job_id that matches no job it is answered 404 when
\* its body parses and 500 when it does not; a callback answered at its first
\* step changes no job, recording or segment.
C18_MissingOrUnknownJob ==
    /\ [](\A h \in Requests : Arrives(h) =>
            \A expectedSecret \in ExpectedSecrets, secret \in RequestSecrets,
               jobId \in {0, Len(jobs) + 1}, bodyParses \in BOOLEAN, payload \in Payloads :
               ~SecretRejected(expectedSecret, secret) =>
                  /\ HookAdmission(h, expectedSecret, secret, jobId, bodyParses, payload).pc = "done"
                  /\ HookAdmission(h, expectedSecret, secret, jobId, bodyParses, payload).response
                       = IF jobId = 0 THEN 400 ELSE IF bodyParses THEN 404 ELSE 500)
    /\ [][\A h \in Requests : (HookArrives(h) /\ hook'[h].pc = "done") =>
             UNCHANGED <<meeting, jobs, segments>>]_vars

C18_Witness ==
    /\ \E h \in Requests : hook[h].pc = "done" /\ hook[h].response = 400
    /\ \E h \in Requests : hook[h].pc = "done" /\ hook[h].response = 404
    /\ \A s \in Requests : sub[s].pc = "idle"
    /\ jobs = <<>>
    /\ meeting.status = "uploaded"
    /\ segments = EmptyBag

\* payload.error || 'Unknown error', as the error column holds it
ErrorColumn(payload) == <<IF payload.error # "" THEN payload.error ELSE "Unknown error">>

\* C19: an arriving callback that passed the secret check, names an existing job and
\* carries an error indicator takes the failure path: it writes that job failed
\* with the error text, then the recording failed, and answers 200; none of its
\* steps inserts a segment.
C19_CallbackFailurePath ==
    /\ [](\A h \in Requests : Arrives(h) =>
            \A expectedSecret \in ExpectedSecrets, secret \in RequestSecrets,
               jobId \in 1..Len(jobs), payload \in Payloads :
               (/\ ~SecretRejected(expectedSecret, secret)
                /\ payload.status = "failed" \/ payload.error # "") =>
                  /\ HookAdmission(h, expectedSecret, secret, jobId, TRUE, payload).pc = "failJob"
                  /\ HookAdmission(h, expectedSecret, secret, jobId, TRUE, payload).jobId = jobId
                  /\ HookAdmission(h, expectedSecret, secret, jobId, TRUE, payload).payload = payload)
    /\ [][\A h \in Requests :
             /\ HookArrives(h) => segments' = segments
             /\ (hook[h].pc = "failJob" /\ hook'[h].pc # "failJob") =>
                  /\ jobs'[hook[h].jobId].status = "failed"
                  /\ jobs'[hook[h].jobId].error = ErrorColumn(hook[h].payload)
                  /\ segments' = segments
                  /\ hook'[h].pc = "failMeeting"
             /\ (hook[h].pc = "failMeeting" /\ hook'[h].pc # "failMeeting") =>
                  /\ meeting'.status = "failed"
                  /\ segments' = segments
                  /\ hook'[h].pc = "done" /\ hook'[h].response = 200]_vars

C19_Witness ==
    /\ \E h \in Requests : hook[h].pc = "done" /\ hook[h].response = 200
    /\ Len(jobs) = 1
    /\ jobs[1].status = "failed"
    /\ jobs[1].error = <<"provider error">>
    /\ jobs[1].raw_response = ErrorPayload
    /\ meeting.status = "failed"
    /\ segments = EmptyBag

\* C20: a callback that passed the secret check, has a body that is valid JSON
\* and names an existing job is answered 200, whatever happens while it is
\* processed.
C20_AlwaysAcknowledged ==
    [][\A h \in Requests :
         /\ HookArrives(h) =>
              \A expectedSecret \in ExpectedSecrets, secret \in RequestSecrets,
                 jobId \in 1..Len(jobs), payload \in Payloads :
                   (/\ ~SecretRejected(expectedSecret, secret)
                    /\ HookBeginWith(h, expectedSecret, secret, jobId, TRUE, payload)) =>
                       (hook'[h].pc = "done" => hook'[h].response = 200)
         /\ (hook[h].pc \notin {"idle", "done"} /\ hook'[h].pc = "done") =>
              hook'[h].response = 200]_vars

----------------------------------------------------------------------------
(* The two paths of a successful result (SpecBuilder) *)

\* C21: the callback handler emits for every successful provider result the
\* segments that the synchronous path emits for it under the job's effective
\* diarization flag.
C21_PathEquivalence ==
    bOut.path = "webhook" => bOut.segments = SubmitSegments(bIn, bIn.diarize)

\* the result has plain text, and diarization is disabled for the job or the
\* result has no word-level data
PlainTextCase ==
    /\ bIn.text # NoText /\ bIn.text # <<>>
    /\ ~bIn.diarize \/ Len(bIn.words) = 0

\* C22: in the plain-text case exactly one segment is emitted, from 0 to the
\* reported duration in milliseconds (0 if none), with the default speaker and
\* the plain text.
C22_PlainTextFallback ==
    (bOut.path # "none" /\ PlainTextCase) =>
        /\ Len(bOut.segments) = 1
        /\ bOut.segments[1].start_ms = 0
        /\ bOut.segments[1].end_ms = (IF bIn.duration = NoNum THEN 0 ELSE (bIn.duration + 1) \div 2)
        /\ bOut.segments[1].speaker_id = "speaker_0"
        /\ bOut.segments[1].text = bIn.text

----------------------------------------------------------------------------
(* Runs, their bounds and their texts (SpecBuilder) *)

\* the positions whose word and next word differ in defaulted speaker
SpeakerChanges ==
    {i \in 1..(Len(bIn.words) - 1) : SpeakerOf(bIn.words[i]) # SpeakerOf(bIn.words[i + 1])}

\* C23: for every diarized word sequence two adjacent segments have different
\* speaker ids, and the number of segments is one plus the number of positions
\* where consecutive words differ in defaulted speaker.
C23_BoundariesAtSpeakerChanges ==
    BuiltDiarized =>
      /\ \A k \in 1..(Len(bOut.segments) - 1) :
           bOut.segments[k].speaker_id # bOut.segments[k + 1].speaker_id
      /\ Len(bOut.segments) = 1 + Cardinality(SpeakerChanges)

C23_Witness ==
    /\ BuiltDiarized
    /\ bOut.path = "submit"
    /\ Len(bIn.words) = 3
    /\ bIn.words[1].speaker_id = NoSpeaker
    /\ bIn.words[2].speaker_id = "speaker_0"
    /\ bIn.words[3].speaker_id = "speaker_1"
    /\ bIn.words[1].start = NoNum /\ bIn.words[2].start # NoNum
    /\ Len(bOut.segments) = 2

\* the position of the first " " of a text, 0 if it has none
FirstSpace(text) ==
    IF \E i \in 1..Len(text) : text[i] = " "
    THEN CHOOSE i \in 1..Len(text) : text[i] = " " /\ \A j \in 1..(i - 1) : text[j] # " "
    ELSE 0

RECURSIVE SplitOnSpace(_)
\* String.prototype.split(' ')
SplitOnSpace(text) ==
    IF FirstSpace(text) = 0 THEN <<text>>
    ELSE <<SubSeq(text, 1, FirstSpace(text) - 1)>>
           \o SplitOnSpace(SubSeq(text, FirstSpace(text) + 1, Len(text)))

RECURSIVE ConcatPieces(_)
\* the texts of the segments split on single spaces, in segment order
ConcatPieces(segs) ==
    IF segs = <<>> THEN <<>> ELSE SplitOnSpace(Head(segs).text) \o ConcatPieces(Tail(segs))

\* C24: for every diarized word sequence, the segments' texts split on single
\* spaces and concatenated in segment order are the input word texts, also for
\* empty texts and texts that contain spaces.
C24_TextRoundTrip ==
    BuiltDiarized => ConcatPieces(bOut.segments) = InputTexts

\* C25: every emitted segment has the defaulted speaker of its first word, the
\* start of its first word and the end of its last word in milliseconds, and
\* the texts of its words joined by single spaces in order.
C25_RunBounds ==
    BuiltDiarized =>
      \A k \in 1..Len(bOut.segments) :
        LET first == WordsBefore(bOut.segments, k - 1) + 1
            last == WordsBefore(bOut.segments, k)
        IN /\ first <= last /\ last <= Len(bIn.words)
           /\ bOut.segments[k].speaker_id = SpeakerOf(bIn.words[first])
           /\ bOut.segments[k].start_ms = ToMs(bIn.words[first].start)
           /\ bOut.segments[k].end_ms = ToMs(bIn.words[last].end)
           /\ bOut.segments[k].text = Join([i \in 1..(last - first + 1) |->
                                              TextOf(bIn.words[first + i - 1])])

C25_Witness ==
    /\ BuiltDiarized
    /\ bOut.path = "submit"
    /\ Len(bIn.words) = 3
    /\ Len(bOut.segments) = 2
    /\ Len(bOut.segments[1].segmentWords) = 2
    /\ bOut.segments[1].text = <<"a", " ", "a">>
    /\ bOut.segments[1].start_ms = 0 /\ bOut.segments[1].end_ms = 2
    /\ bOut.segments[2].start_ms = 1

----------------------------------------------------------------------------
(* The builders on words in time order (SpecOrdered) *)

\* words with both times present, in half-milliseconds, start <= end
OrderedWords ==
    {w \in [speaker_id : {"speaker_0", "speaker_1"}, start : 0..MaxTime, end : 0..MaxTime,
            text : {<<"a">>}] : w.start <= w.end}

\* ordered by start, each word ending before the next one starts
InTimeOrder(words) ==
    \A i \in 1..(Len(words) - 1) :
        /\ words[i].start <= words[i + 1].start
        /\ words[i].end <= words[i + 1].start

RECURSIVE InTimeOrderUpTo(_)
\* the word sequences of at most n words that are in time order
InTimeOrderUpTo(n) ==
    IF n = 0 THEN {<<>>}
    ELSE LET shorter == InTimeOrderUpTo(n - 1)
         IN shorter \cup
              {Append(p[1], p[2]) :
                 p \in {c \in {t \in shorter : Len(t) = n - 1} \X OrderedWords :
                          InTimeOrder(Append(c[1], c[2]))}}

InitOrdered ==
    /\ meeting = [status |-> "transcribing", duration_seconds |-> NoNum]
    /\ jobs = <<>>
    /\ segments = EmptyBag
    /\ summaries = <<>>
    /\ sub = [s \in Requests |-> IdleSub]
    /\ hook = [h \in Requests |-> IdleHook]
    /\ gen = [g \in GenIds |-> IdleGen]
    /\ lastResolved = 0
    /\ bIn \in [words : InTimeOrderUpTo(MaxWords),
                text : {NoText}, duration : {NoNum}, diarize : {TRUE}]
    /\ bOut = NoBuilderOutput

SpecOrdered == InitOrdered /\ [][NextBuilder]_vars

\* C26: for words ordered by start time, with start <= end and each ending
\* before the next starts, the segments of one job are ordered by start_ms,
\* each has start_ms <= end_ms, and each ends before the next one starts.
C26_SegmentsInTimeOrder ==
    BuiltDiarized =>
      /\ \A k \in 1..Len(bOut.segments) : bOut.segments[k].start_ms <= bOut.segments[k].end_ms
      /\ \A k \in 1..(Len(bOut.segments) - 1) :
           /\ bOut.segments[k].start_ms <= bOut.segments[k + 1].start_ms
           /\ bOut.segments[k].end_ms <= bOut.segments[k + 1].start_ms

C26_Witness ==
    /\ BuiltDiarized
    /\ bOut.path = "submit"
    /\ Len(bIn.words) = 3
    /\ bIn.words[1].start = 0 /\ bIn.words[1].end = 1
    /\ bIn.words[2].start = 1 /\ bIn.words[2].end = 2
    /\ bIn.words[3].start = 2 /\ bIn.words[3].end = 3
    /\ Len(bOut.segments) = 2
    /\ bOut.segments[1].end_ms = 1
    /\ bOut.segments[2].start_ms = 1 /\ bOut.segments[2].end_ms = 2

----------------------------------------------------------------------------
(* Submissions and callbacks one at a time (SpecSolo) *)

\* a submission that arrives while no other handler is running
SubmitBeginSolo(s) == NoHandlerRunning /\ SubmitBegin(s)

\* a callback that arrives while no other handler is running
HookBeginSolo(h) == NoHandlerRunning /\ HookBegin(h)

NextSolo ==
    \E r \in Requests :
        \/ SubmitBeginSolo(r)
        \/ SubmitSetTranscribing(r)
        \/ SubmitInsertJob(r)
        \/ SubmitSignedUrl(r)
        \/ SubmitUrlFailJob(r)
        \/ SubmitUrlFailMeeting(r)
        \/ SubmitFetch(r)
        \/ SubmitRejectJob(r)
        \/ SubmitRejectMeeting(r)
        \/ SubmitCompleteJob(r)
        \/ SubmitInsertSegments(r)
        \/ SubmitMeetingReady(r)
        \/ HookBeginSolo(r)
        \/ HookFailJob(r)
        \/ HookFailMeeting(r)
        \/ HookCompleteJob(r)
        \/ HookInsertSegments(r)
        \/ HookMeetingReady(r)

SpecSolo == Init /\ [][NextSolo]_vars

\* duration_seconds for a reported duration: whole seconds, none if unknown
Stamped(duration) == IF duration = NoNum THEN NoNum ELSE (duration + 1000) \div 2000

----------------------------------------------------------------------------
(* Monotonic job status (Spec) *)

\* C28: no step moves a job that is completed or failed to running or queued.
C28_JobStatusMonotonic ==
    [][\A j \in JobIds :
         jobs[j].status \in {"completed", "failed"} =>
            jobs'[j].status \notin {"running", "queued"}]_vars

C28_Witness ==
    /\ Len(jobs) = 2
    /\ jobs[1].status = "failed"
    /\ jobs[2].status = "running"
    /\ \E h \in Requests : hook[h].pc = "done" /\ hook[h].response = 200

----------------------------------------------------------------------------
(* Summary rows under errors and regeneration (SpecSummary) *)

\* C29: a generate call that ends in an error has inserted no summary row and
\* the step that ends it leaves the summary rows as they are.
C29_FailedGenerateWritesNothing ==
    [][\A g \in GenIds :
         (gen[g].pc # "done" /\ gen'[g].pc = "done" /\ gen'[g].response # 200) =>
            /\ gen[g].pc \in {"idle", "readSegments"}
            /\ summaries' = summaries]_vars

C29_Witness ==
    /\ \E g \in GenIds : gen[g].pc = "done" /\ gen[g].response = 200
    /\ \E g \in GenIds : gen[g].pc = "done" /\ gen[g].response = 400
    /\ \E g \in GenIds : gen[g].pc = "done" /\ gen[g].response = 500
    /\ segments # EmptyBag
    /\ Len(summaries) = 1

\* C30: every step keeps each persisted summary row as it is, at its place;
\* rows are only added, by calls one after another or at the same time.
C30_SummariesImmutable ==
    [][/\ Len(summaries') >= Len(summaries)
       /\ \A i \in 1..Len(summaries) : summaries'[i] = summaries[i]]_vars

C30_Witness ==
    /\ Len(summaries) = 3
    /\ summaries[1].version = 1 /\ summaries[2].version = 1
    /\ summaries[1].content_md # summaries[2].content_md
    /\ summaries[3].version = 2

----------------------------------------------------------------------------
(* Summaries need a ready recording (SpecSummary) *)

\* C31: a generate call of the owner for a recording that is uploaded,
\* transcribing or failed is answered 404 at its first step: it reaches neither
\* the provider call nor the insert, and the summary rows stay as they are.
C31_GenerateNeedsReady ==
    /\ [](\A g \in GenIds : GenArrives(g) =>
            (meeting.status \in {"uploaded", "transcribing", "failed"} =>
                /\ GenAdmission(g, "ok", MeetingId).pc = "done"
                /\ GenAdmission(g, "ok", MeetingId).response = 404))
    /\ [][\A g \in GenIds :
            (gen[g].pc = "idle" /\ gen'[g].pc # "idle" /\ meeting.status # "ready") =>
               /\ gen'[g].pc = "done"
               /\ summaries' = summaries]_vars

C31_Witness ==
    /\ meeting.status = "transcribing"
    /\ segments # EmptyBag
    /\ \E g \in GenIds : gen[g].pc = "done" /\ gen[g].response = 404
    /\ \A g \in GenIds : gen[g].pc \in {"idle", "done"} /\ gen[g].response \in {0, 404}
    /\ summaries = <<>>

----------------------------------------------------------------------------
(* Renaming a speaker on the meeting page (SpecRename) *)

\* what the user typed as the new label
TypedLabels == {"", "  ", "Dana", " Dana ", "Noa", "Guest", "Host"}

\* String.prototype.trim()
Trim(label) ==
    CASE label = "  " -> ""
      [] label = " Dana " -> "Dana"
      [] OTHER -> label

\* the update with a slip: the filter on meeting_id is missing
RenameRowsAnyMeeting(table, id, oldSpeakerId, label) ==
    LET old == BagToSet(table)
        renamed == [r \in old |-> IF r.speaker_id = oldSpeakerId
                                  THEN [r EXCEPT !.speaker_label = label] ELSE r]
    IN [x \in {renamed[r] : r \in old} |->
          BagCardinality([r \in {q \in old : renamed[q] = x} |-> table[r]])]

\* lines 62-66: .update({speaker_label}).eq('meeting_id', id).eq('speaker_id', oldSpeakerId);
\* every stored row is kept, as often as it is stored, relabelled if it matches
RenameRows(table, id, oldSpeakerId, label) ==
    LET old == BagToSet(table)
        renamed == [r \in old |-> IF r.meeting_id = id /\ r.speaker_id = oldSpeakerId
                                  THEN [r EXCEPT !.speaker_label = label] ELSE r]
    IN [x \in {renamed[r] : r \in old} |->
          BagCardinality([r \in {q \in old : renamed[q] = x} |-> table[r]])]

\* lines 60-74 of the meeting page, for one click
handleRenameSpeakerWith(id, oldSpeakerId, newSpeakerLabel) ==
    /\ segments' = IF Trim(newSpeakerLabel) = "" THEN segments
                   ELSE RenameRows(segments, id, oldSpeakerId, Trim(newSpeakerLabel))
    /\ UNCHANGED <<meeting, jobs, summaries, sub, hook, gen, lastResolved, bIn, bOut>>

handleRenameSpeaker ==
    \E id \in {MeetingId, OtherMeetingId}, oldSpeakerId \in {"speaker_0", "speaker_1"},
       newSpeakerLabel \in TypedLabels :
         handleRenameSpeakerWith(id, oldSpeakerId, newSpeakerLabel)

\* a row of another recording
OtherRow ==
    [meeting_id |-> OtherMeetingId, speaker_id |-> "speaker_0", speaker_label |-> "Speaker 0",
     start_ms |-> 0, end_ms |-> 500, text |-> <<"a">>]

\* the segments of a diarized result inserted twice (a retry), a text-only
\* result, and a row of another recording
InitRename ==
    /\ meeting = [status |-> "ready", duration_seconds |-> 2]
    /\ jobs = <<>>
    /\ segments = InsertRows(InsertRows(InsertRows(EmptyBag,
                                SubmitSegments(TwoSpeakerResult, TRUE)),
                                SubmitSegments(TwoSpeakerResult, TRUE)),
                                SubmitSegments(TextOnlyResult, TRUE))
                  (+) SetToBag({OtherRow})
    /\ summaries = <<>>
    /\ sub = [s \in Requests |-> IdleSub]
    /\ hook = [h \in Requests |-> IdleHook]
    /\ gen = [g \in GenIds |-> IdleGen]
    /\ lastResolved = 0
    /\ bIn = NoBuilderInput
    /\ bOut = NoBuilderOutput

SpecRename == InitRename /\ [][handleRenameSpeaker]_vars

\* C32: a rename with a non-blank label leaves every row that is not of that
\* recording and speaker as it is, and turns every row of that recording and
\* speaker into the same row with the new label; a blank label changes nothing.
C32_RenameFrame ==
    [][\A id \in {MeetingId, OtherMeetingId}, oldSpeakerId \in {"speaker_0", "speaker_1"},
          newSpeakerLabel \in TypedLabels :
         handleRenameSpeakerWith(id, oldSpeakerId, newSpeakerLabel) =>
           LET blank == newSpeakerLabel \in {"", "  "}
               label == IF newSpeakerLabel = " Dana " THEN "Dana" ELSE newSpeakerLabel
           IN IF blank THEN segments' = segments
              ELSE \A x \in BagToSet(segments) \cup BagToSet(segments') :
                     LET sources == {r \in BagToSet(segments) :
                                       IF r.meeting_id = id /\ r.speaker_id = oldSpeakerId
                                       THEN [r EXCEPT !.speaker_label = label] = x
                                       ELSE r = x}
                     IN CopiesIn(x, segments') =
                          BagCardinality([r \in sources |-> segments[r]])]_vars

C32_Witness ==
    /\ \E r \in BagToSet(segments) :
         /\ r.meeting_id = MeetingId /\ r.speaker_id = "speaker_0"
         /\ r.speaker_label = "Dana" /\ r.text = <<"a">> /\ r.end_ms = 500
         /\ segments[r] = 2
    /\ \A r \in BagToSet(segments) :
         (r.meeting_id = MeetingId /\ r.speaker_id = "speaker_0") => r.speaker_label = "Dana"
    /\ OtherRow \in BagToSet(segments)
    /\ \E r \in BagToSet(segments) : r.speaker_id = "speaker_1" /\ r.speaker_label = "Speaker 1"

----------------------------------------------------------------------------
(* A retry is a fresh submission (Spec) *)

\* how far a submission has come; the provider is called at "fetch"
SubmitRank(pc) ==
    CASE pc = "idle" -> 0
      [] pc = "setTranscribing" -> 1
      [] pc = "insertJob" -> 2
      [] pc = "signedUrl" -> 3
      [] pc \in {"urlFailJob", "fetch"} -> 4
      [] pc \in {"urlFailMeeting", "rejectJob", "completeJob"} -> 5
      [] pc \in {"rejectMeeting", "insertSegments"} -> 6
      [] pc = "meetingReady" -> 7
      [] OTHER -> 8

\* C33: every step of a submission moves it forward (so it inserts a job once
\* and calls the provider at most once, and nothing takes it back to the call);
\* its insert step appends exactly one running job and leaves the earlier jobs as
\* they are; every other step of it leaves the number of jobs and every job but
\* its own as they are; no two submissions hold the same job.
C33_RetryIsFreshJob ==
    /\ [](\A s, t \in Requests :
            (s # t /\ sub[s].jobId # 0 /\ sub[t].jobId # 0) => sub[s].jobId # sub[t].jobId)
    /\ [][\A s \in Requests :
            sub'[s] # sub[s] =>
              /\ SubmitRank(sub'[s].pc) > SubmitRank(sub[s].pc)
              /\ IF sub[s].pc = "insertJob"
                 THEN /\ Len(jobs') = Len(jobs) + 1
                      /\ jobs'[Len(jobs')].status = "running"
                      /\ sub'[s].jobId = Len(jobs')
                      /\ \A j \in 1..Len(jobs) : jobs'[j] = jobs[j]
                 ELSE /\ Len(jobs') = Len(jobs)
                      /\ \A j \in 1..Len(jobs) : j # sub[s].jobId => jobs'[j] = jobs[j]]_vars

\* a retry has failed at the provider after an earlier submission completed:
\* two jobs, the first still completed with its result
C33_Witness ==
    /\ Len(jobs) = 2
    /\ jobs[1].status = "completed" /\ jobs[1].raw_response = TwoSpeakerResult
    /\ jobs[2].status = "failed" /\ jobs[2].error # NoError
    /\ \A h \in Requests : hook[h].pc = "idle"
    /\ \E s, t \in Requests : s < t /\ sub[s].response = 200 /\ sub[t].response = 500

----------------------------------------------------------------------------
(* A result without words and without text (SpecBuilder) *)

\* C34: a result with an empty word list and no plain text produces no
\* segment, in start_transcription (with or without diarization) and in the
\* webhook.
C34_NoWordsNoTextNoSegments ==
    (bOut.path # "none" /\ bIn.words = <<>> /\ bIn.text = NoText) => bOut.segments = <<>>

C34_Witness ==
    /\ bOut.path = "submit"
    /\ bIn.words = <<>> /\ bIn.text = NoText /\ bIn.diarize /\ bIn.duration = 3001
    /\ bOut.segments = <<>>

----------------------------------------------------------------------------
(* Effective options of a submission (SpecOptions) *)

\* options.modelId of a request: absent, empty, or a model
RequestModelIds == {"unset", "", "scribe_v1"}

\* app_settings.elevenlabs_default_model_id: absent (or no settings row), empty, or a model
SettingsModelIds == {"unset", "", "scribe_v1_experimental"}

\* options?.tagAudioEvents ?? settings?.elevenlabs_tag_audio_events_default ?? false
EffectiveTagAudioEvents(optTag, settingsTag) ==
    IF optTag # "unset" THEN optTag = "true"
    ELSE IF settingsTag # "unset" THEN settingsTag = "true"
    ELSE FALSE

\* the identifier with a slip: ?? instead of ||, so an empty string is sent
EffectiveModelIdNullish(optModel, settingsModel) ==
    IF optModel # "unset" THEN optModel
    ELSE IF settingsModel # "unset" THEN settingsModel
    ELSE "scribe_v2"

\* options?.modelId || settings?.elevenlabs_default_model_id || 'scribe_v2'
EffectiveModelId(optModel, settingsModel) ==
    IF optModel \notin {"unset", ""} THEN optModel
    ELSE IF settingsModel \notin {"unset", ""} THEN settingsModel
    ELSE "scribe_v2"

\* String(b) of a boolean
StringOf(b) == IF b THEN "true" ELSE "false"

InitOptions ==
    /\ meeting = [status |-> "transcribing", duration_seconds |-> NoNum]
    /\ jobs = <<>>
    /\ segments = EmptyBag
    /\ summaries = <<>>
    /\ sub = [s \in Requests |-> IdleSub]
    /\ hook = [h \in Requests |-> IdleHook]
    /\ gen = [g \in GenIds |-> IdleGen]
    /\ lastResolved = 0
    /\ bIn \in [optDiarize : Flags, settingsDiarize : Flags,
                optTag : Flags, settingsTag : Flags,
                optModel : RequestModelIds, settingsModel : SettingsModelIds]
    /\ bOut = NoBuilderOutput

\* lines 94-103: the options in effect and the form fields sent to the provider
BuildFormData ==
    /\ bOut.path = "none"
    /\ bOut' = [path |-> "form",
                model_id |-> EffectiveModelId(bIn.optModel, bIn.settingsModel),
                diarize |-> StringOf(EffectiveDiarize(bIn.optDiarize, bIn.settingsDiarize)),
                tag_audio_events |-> StringOf(EffectiveTagAudioEvents(bIn.optTag, bIn.settingsTag))]
    /\ UNCHANGED <<meeting, jobs, segments, summaries, sub, hook, gen, lastResolved, bIn>>

SpecOptions == InitOptions /\ [][BuildFormData]_vars

\* the request's value if it has one, else that of the settings if they have
\* one, else the default
Fallback(opt, setting, default) ==
    IF opt # "unset" THEN opt ELSE IF setting # "unset" THEN setting ELSE default

\* C35 as stated: each of the three form fields is the request's value when
\* the request has one, else the settings value, else the built-in default
\* (diarize true, tag_audio_events false, model_id scribe_v2).
C35_RequestThenSettingsThenDefault ==
    bOut.path = "form" =>
        /\ bOut.diarize = Fallback(bIn.optDiarize, bIn.settingsDiarize, "true")
        /\ bOut.tag_audio_events = Fallback(bIn.optTag, bIn.settingsTag, "false")
        /\ bOut.model_id = Fallback(bIn.optModel, bIn.settingsModel, "scribe_v2")

\* an option that is absent, or the empty string
Blank(x) == IF x = "" THEN "unset" ELSE x

\* C35: the two flags are the request's value when the request has one (an
\* explicit false included), else the settings value, else the default; the
\* model identifier follows the same order with an empty string counted as
\* absent, in the request and in the settings.
C35_EffectiveOptions ==
    bOut.path = "form" =>
        /\ bOut.diarize = Fallback(bIn.optDiarize, bIn.settingsDiarize, "true")
        /\ bOut.tag_audio_events = Fallback(bIn.optTag, bIn.settingsTag, "false")
        /\ bOut.model_id = Fallback(Blank(bIn.optModel), Blank(bIn.settingsModel), "scribe_v2")

\* an explicit false of the request wins over a true of the settings, and an
\* empty model identifier of the request gives way to the one of the settings
C35_Witness ==
    /\ bOut.path = "form"
    /\ bIn.optDiarize = "false" /\ bIn.settingsDiarize = "true" /\ bOut.diarize = "false"
    /\ bIn.optTag = "false" /\ bIn.settingsTag = "true" /\ bOut.tag_audio_events = "false"
    /\ bIn.optModel = "" /\ bIn.settingsModel = "scribe_v1_experimental"
    /\ bOut.model_id = "scribe_v1_experimental"

----------------------------------------------------------------------------
(* Words without a speaker identifier (SpecBuilder) *)

\* C36: in a diarized build, a word without a speaker identifier lies in a
\* segment whose speaker_id is speaker_0; it lies in the segment of the word
\* before it when that word has no identifier or the identifier speaker_0, and
\* otherwise it is the first word of the next segment.
C36_AbsentSpeakerIsDefault ==
    BuiltDiarized =>
      \A i \in 1..Len(bIn.words) :
        bIn.words[i].speaker_id = NoSpeaker =>
          LET k == SegmentOf(bOut.segments, i)
          IN /\ k \in 1..Len(bOut.segments)
             /\ bOut.segments[k].speaker_id = "speaker_0"
             /\ bOut.segments[k].speaker_label = "Speaker 0"
             /\ i > 1 =>
                  IF bIn.words[i - 1].speaker_id \in {NoSpeaker, "speaker_0"}
                  THEN SegmentOf(bOut.segments, i - 1) = k
                  ELSE /\ SegmentOf(bOut.segments, i - 1) = k - 1
                       /\ WordsBefore(bOut.segments, k - 1) = i - 1

\* explicit speaker_0, then no identifier (joins the run), then speaker_1
C36_Witness ==
    /\ BuiltDiarized
    /\ bOut.path = "webhook"
    /\ Len(bIn.words) = 3
    /\ bIn.words[1].speaker_id = "speaker_0"
    /\ bIn.words[2].speaker_id = NoSpeaker
    /\ bIn.words[3].speaker_id = "speaker_1"
    /\ Len(bOut.segments) = 2
    /\ Len(bOut.segments[1].segmentWords) = 2
    /\ bOut.segments[1].speaker_id = "speaker_0"

----------------------------------------------------------------------------
(* The stored segments after retries (SpecSolo) *)

\* C37: when no handler is running, the stored segments are none, or the rows
\* built from one result, as start_transcription (with or without diarization)
\* or the webhook builds them.
C37_SegmentsOfOneJob ==
    NoHandlerRunning =>
        \/ segments = EmptyBag
        \/ \E result \in Payloads :
             \/ \E diarize \in BOOLEAN :
                  segments = InsertRows(EmptyBag, SubmitSegments(result, diarize))
             \/ segments = InsertRows(EmptyBag, WebhookSegments(result))

----------------------------------------------------------------------------
(* A ready recording and its segments (SpecSolo) *)

\* C38: a recording whose status is ready has at least one transcript segment.
C38_ReadyHasSegments ==
    meeting.status = "ready" => segments # EmptyBag

----------------------------------------------------------------------------
(* Running jobs and the status of the recording (Spec) *)

\* C39: if some job of the recording is running, the recording is transcribing.
C39_RunningMeansTranscribing ==
    (\E j \in JobIds : jobs[j].status = "running") => meeting.status = "transcribing"

----------------------------------------------------------------------------
(* The stamped duration under later completions (SpecSolo) *)

\* C40: once duration_seconds holds a value, no step of a submission or a
\* callback sets it back to null.
C40_DurationNotReset ==
    [][meeting.duration_seconds # NoNum => meeting'.duration_seconds # NoNum]_vars

====
